---- MODULE Spec2Model ----
(***************************************************************************)
(* Model of modomaly: make_components (proximity graph of a time series),  *)
(* get_partition (Louvain communities and their modularity) and the        *)
(* selection / median filter of __main__.                                  *)
(*                                                                         *)
(* Units.  Timestamps are integers counting tenths of a second, so the     *)
(* default xgap = 0.3 is 3.  epsilon is kept in tenths (0.6 is 6), and the *)
(* test  x[j]-x[v] < epsilon*xgap  is  10*(x[j]-x[v]) < epsilon*xgap.      *)
(* Modularity and the Louvain gains are rationals over 4*m^2 and 2*m^2;    *)
(* they are kept as exact integer numerators.                              *)
(***************************************************************************)
EXTENDS Integers, Sequences, FiniteSets, TLC

\* ---------------------------------------------------------------- bounds
MaxN == 4
MaxTime == 3
MaxRuns == 2

\* values a sample can take in the pipeline runs, and in the runs of
\* make_components with free parameters
Values == {100, 120, 150, 540}
CompValues == {100, 130}
XGaps == {3}
YGaps == {30}
Epsilons == {6, 10, 15}

\* the graph sizes whose Louvain outcomes are tabulated
TabledSizes == 0..4

\* ----------------------------------------------------- program constants
DefaultXgap == 3
DefaultYgap == 30
DefaultEpsilon == 6
LowThreshold == 520
TolPercent == 8

VARIABLES
    x, y,                 \* df['unix_time'], df['values'], indexed 0..n-1
    xgap, ygap, epsilon,  \* parameters of make_components
    i, j,                 \* loop indices of make_components
    G,                    \* the networkx graph: nodes and adjacency lists
    pc,                   \* position in the pipeline
    P, modularity,        \* result of get_partition
    invoked,              \* louvain_communities has been called in this run
    low_parts, max_i,     \* selection
    slim_part_vals, slim_part_indx,   \* the filtered segment
    run, prev             \* iteration of the main loop, result of the previous one

vars == <<x, y, xgap, ygap, epsilon, i, j, G, pc, P, modularity, invoked,
          low_parts, max_i, slim_part_vals, slim_part_indx, run, prev>>

\* ------------------------------------------------------------- helpers
n == Cardinality(DOMAIN x)

Abs(a) == IF a < 0 THEN -a ELSE a

Contains(s, e) == \E k \in DOMAIN s : s[k] = e

Range(s) == {s[k] : k \in DOMAIN s}

\* variant: G.add_nodes_from(range(n + 1))
EmptyGraph_offbyone(k) == [nodes |-> 0..k, adj |-> [u \in 0..k |-> <<>>]]

\* nx.Graph(); G.add_nodes_from(range(n))
EmptyGraph(k) == [nodes |-> 0..(k-1), adj |-> [u \in 0..(k-1) |-> <<>>]]

\* G.neighbors(u)
Neighbors(g, u) == Range(g.adj[u])

\* G.add_edge(u, v): each endpoint is appended to the other's adjacency
\* dict unless it is already a key there
AddEdge(g, u, v) ==
    [g EXCEPT !.adj = [a \in DOMAIN g.adj |->
        IF a = u /\ ~Contains(g.adj[a], v) THEN Append(g.adj[a], v)
        ELSE IF a = v /\ a # u /\ ~Contains(g.adj[a], u) THEN Append(g.adj[a], u)
        ELSE g.adj[a]]]

\* ------------------------------------------------ networkx graph views
\* G.edges: nodes in insertion order 0..k-1, each adjacency in insertion
\* order, an edge reported from its first endpoint only (a self-loop once)
RECURSIVE EdgeList(_, _, _)
EdgeList(adj, u, k) ==
    IF u >= k THEN <<>>
    ELSE LET nb == SelectSeq(adj[u], LAMBDA v : v >= u)
         IN [t \in 1..Len(nb) |-> <<u, nb[t]>>] \o EdgeList(adj, u + 1, k)

\* the set of edges {u,v} of a graph
Edges(g) ==
    {e \in {{u, v} : u \in g.nodes, v \in g.nodes} :
        \E u \in e : \E v \in e : e = {u, v} /\ v \in Neighbors(g, u)}

\* variant: the guard tests the nodes, len(G.nodes) == 0
NoEdges_nodes(g) == Cardinality(g.nodes) = 0

\* len(G.edges) == 0
NoEdges(g) == Len(EdgeList(g.adj, 0, Cardinality(g.nodes))) = 0

\* ----------------------------------------------------- make_components
\* variant: abs(x[j]-x[v]) < epsilon*xgap
SecondOrder_abs(g, a, b) ==
    \E v \in Range(g.adj[a]) : 10 * Abs(x[b] - x[v]) < epsilon * xgap

\* line 73: some neighbour v of a has x[b]-x[v] < epsilon*xgap
SecondOrder(g, a, b) ==
    \E v \in Neighbors(g, a) : 10 * (x[b] - x[v]) < epsilon * xgap

\* variant: abs(y[i]-y[j]) <= ygap
Weight_le(g, a, b) ==
    IF Abs(y[a] - y[b]) <= ygap
    THEN IF Abs(x[b] - x[a]) < xgap THEN 1
         ELSE IF \E v \in Range(g.adj[a]) : 10 * (x[b] - x[v]) < epsilon * xgap THEN 1
         ELSE 0
    ELSE 0

\* the weight w of lines 68-78 for the pair (a, b) on graph g

Weight(g, a, b) ==
    IF Abs(y[a] - y[b]) < ygap
    THEN IF Abs(x[b] - x[a]) < xgap THEN 1
         ELSE IF SecondOrder(g, a, b) THEN 1
         ELSE 0
    ELSE 0

\* one iteration of the inner loop, with the advance of (i, j)
ScanPair ==
    /\ pc = "scan"
    /\ i < n - 1
    /\ G' = IF Weight(G, i, j) > 0 THEN AddEdge(G, i, j) ELSE G
    /\ IF j + 1 < n
       THEN /\ j' = j + 1
            /\ i' = i
       ELSE /\ i' = i + 1
            /\ j' = i + 2
    /\ UNCHANGED <<x, y, xgap, ygap, epsilon, pc, P, modularity, invoked,
                   low_parts, max_i, slim_part_vals, slim_part_indx, run, prev>>

\* the loops are exhausted: return G
ScanReturn ==
    /\ pc = "scan"
    /\ i >= n - 1
    /\ pc' = "partition"
    /\ UNCHANGED <<x, y, xgap, ygap, epsilon, i, j, G, P, modularity, invoked,
                   low_parts, max_i, slim_part_vals, slim_part_indx, run, prev>>

\* ---------------------------------------------- weighted graph copies
\* a weighted graph on nodes 0..k-1: adjacency lists, symmetric weights,
\* and the "nodes" attribute (the original nodes a node stands for)
EmptyWeighted(k, mem) ==
    [k |-> k,
     adj |-> [u \in 0..(k-1) |-> <<>>],
     w |-> [p \in (0..(k-1)) \X (0..(k-1)) |-> 0],
     members |-> mem]

\* H.add_edge(u, v, weight=wt)
AddWeightedEdge(g, u, v, wt) ==
    [g EXCEPT
        !.adj = [a \in DOMAIN g.adj |->
            IF a = u /\ ~Contains(g.adj[a], v) THEN Append(g.adj[a], v)
            ELSE IF a = v /\ a # u /\ ~Contains(g.adj[a], u) THEN Append(g.adj[a], u)
            ELSE g.adj[a]],
        !.w = [p \in DOMAIN g.w |->
            IF p = <<u, v>> \/ p = <<v, u>> THEN wt ELSE g.w[p]]]

\* graph = G.__class__(); graph.add_nodes_from(G);
\* graph.add_weighted_edges_from(G.edges(data=weight, default=1))
RECURSIVE AddUnitEdges(_, _, _)
AddUnitEdges(g, es, t) ==
    IF t > Len(es) THEN g
    ELSE AddUnitEdges(AddWeightedEdge(g, es[t][1], es[t][2], 1), es, t + 1)

WeightedCopy(g) ==
    LET k == Cardinality(g.nodes)
    IN AddUnitEdges(EmptyWeighted(k, [u \in 0..(k-1) |-> {u}]),
                    EdgeList(g.adj, 0, k), 1)

RECURSIVE SumSeq(_, _)
SumSeq(s, t) == IF t > Len(s) THEN 0 ELSE s[t] + SumSeq(s, t + 1)

\* G.degree(weight="weight"): a self-loop counts twice
Degree(g, u) ==
    SumSeq([t \in 1..Len(g.adj[u]) |-> g.w[<<u, g.adj[u][t]>>]], 1) + g.w[<<u, u>>]

\* graph.size(weight="weight")
Size(g) ==
    LET es == EdgeList(g.adj, 0, g.k)
    IN SumSeq([t \in 1..Len(es) |-> g.w[es[t]]], 1)

RECURSIVE SumOver(_, _)
SumOver(S, f) ==
    IF S = {} THEN 0
    ELSE LET e == CHOOSE e \in S : TRUE IN f[e] + SumOver(S \ {e}, f)

\* nx.community.modularity(g, comms) as the numerator over (sum of degrees)^2
\* = 4*m^2: per community 2*degsum*L_c - D_c^2
ModularityNum(g, comms) ==
    LET es == EdgeList(g.adj, 0, g.k)
        deg == [u \in 0..(g.k - 1) |-> Degree(g, u)]
        degsum == SumOver(0..(g.k - 1), deg)
        L(c) == SumSeq([t \in 1..Len(es) |->
                    IF es[t][1] \in c /\ es[t][2] \in c THEN g.w[es[t]] ELSE 0], 1)
        D(c) == SumOver(c, deg)
    IN SumSeq([t \in 1..Len(comms) |->
                  2 * degsum * L(comms[t]) - D(comms[t]) * D(comms[t])], 1)

\* ------------------------------------------- louvain: _neighbor_weights
\* weights2com as the sequence of its (community, weight) items in key order
RECURSIVE NeighborWeights(_, _, _, _, _)
NeighborWeights(g, u, node2com, t, acc) ==
    IF t > Len(g.adj[u]) THEN acc
    ELSE LET v == g.adj[u][t]
         IN IF v = u THEN NeighborWeights(g, u, node2com, t + 1, acc)
            ELSE LET c == node2com[v]
                     wt == g.w[<<u, v>>]
                 IN IF \E q \in DOMAIN acc : acc[q][1] = c
                    THEN NeighborWeights(g, u, node2com, t + 1,
                            [q \in DOMAIN acc |->
                                IF acc[q][1] = c THEN <<c, acc[q][2] + wt>> ELSE acc[q]])
                    ELSE NeighborWeights(g, u, node2com, t + 1, Append(acc, <<c, wt>>))

\* variant: the comparison of the gain reversed, gain < best_mod
RECURSIVE BestCom_reversed(_, _, _, _, _, _, _, _)
BestCom_reversed(w2c, t, m, degree, Stot, remove_cost, best_mod, best_com) ==
    IF t > Len(w2c) THEN best_com
    ELSE IF remove_cost + 2 * m * w2c[t][2] - Stot[w2c[t][1]] * degree < best_mod
         THEN BestCom_reversed(w2c, t + 1, m, degree, Stot, remove_cost,
                  remove_cost + 2 * m * w2c[t][2] - Stot[w2c[t][1]] * degree, w2c[t][1])
         ELSE BestCom_reversed(w2c, t + 1, m, degree, Stot, remove_cost, best_mod, best_com)

\* the loop "for nbr_com, wt in weights2com.items()": the first community
\* whose gain is strictly above every gain before it and above 0.
\* gains are multiplied by 2*m^2
RECURSIVE BestCom(_, _, _, _, _, _, _, _)
BestCom(w2c, t, m, degree, Stot, remove_cost, best_mod, best_com) ==
    IF t > Len(w2c) THEN best_com
    ELSE LET gain == remove_cost + 2 * m * w2c[t][2] - Stot[w2c[t][1]] * degree
         IN IF gain > best_mod
            THEN BestCom(w2c, t + 1, m, degree, Stot, remove_cost, gain, w2c[t][1])
            ELSE BestCom(w2c, t + 1, m, degree, Stot, remove_cost, best_mod, best_com)

\* weights2com[best_com] on a defaultdict inserts a missing key
WithKey(w2c, own) ==
    IF \E q \in DOMAIN w2c : w2c[q][1] = own THEN w2c ELSE Append(w2c, <<own, 0>>)

WeightTo(w2c, c) == LET q == CHOOSE q \in DOMAIN w2c : w2c[q][1] = c IN w2c[q][2]

\* variant: the moved nodes are not taken out of the community they leave
MoveNode_keep(g, st, u, own, best, degree, Stot1) ==
    IF best # own
    THEN [node2com |-> [st.node2com EXCEPT ![u] = best],
          partition |-> [st.partition EXCEPT ![best + 1] = @ \cup g.members[u]],
          inner |-> [st.inner EXCEPT ![own + 1] = @ \ {u},
                                     ![best + 1] = @ \cup {u}],
          Stot |-> [Stot1 EXCEPT ![best] = @ + degree],
          improvement |-> TRUE,
          nb_moves |-> st.nb_moves + 1]
    ELSE [st EXCEPT !.Stot = [Stot1 EXCEPT ![best] = @ + degree]]

\* the end of the body: Stot[best_com] += degree and the move of u
MoveNode(g, st, u, own, best, degree, Stot1) ==
    IF best # own
    THEN [node2com |-> [st.node2com EXCEPT ![u] = best],
          partition |-> [st.partition EXCEPT ![own + 1] = @ \ g.members[u],
                                             ![best + 1] = @ \cup g.members[u]],
          inner |-> [st.inner EXCEPT ![own + 1] = @ \ {u},
                                     ![best + 1] = @ \cup {u}],
          Stot |-> [Stot1 EXCEPT ![best] = @ + degree],
          improvement |-> TRUE,
          nb_moves |-> st.nb_moves + 1]
    ELSE [st EXCEPT !.Stot = [Stot1 EXCEPT ![best] = @ + degree]]

\* Stot[best_com] -= degree; remove_cost; the choice of best_com
ChooseCom(g, m, st, u, own, w2c, degree, Stot1) ==
    MoveNode(g, st, u, own,
             BestCom(w2c, 1, m, degree, Stot1,
                     Stot1[own] * degree - 2 * m * WeightTo(w2c, own), 0, own),
             degree, Stot1)

WithDegree(g, m, st, u, own, w2c, degree) ==
    ChooseCom(g, m, st, u, own, w2c, degree, [st.Stot EXCEPT ![own] = @ - degree])

\* the body of "for u in rand_nodes" in _one_level
VisitNode(g, m, st, u) ==
    WithDegree(g, m, st, u, st.node2com[u],
               WithKey(NeighborWeights(g, u, st.node2com, 1, <<>>), st.node2com[u]),
               Degree(g, u))

RECURSIVE Sweep(_, _, _, _, _)
Sweep(g, m, st, rand_nodes, t) ==
    IF t > Len(rand_nodes) THEN st
    ELSE Sweep(g, m, VisitNode(g, m, st, rand_nodes[t]), rand_nodes, t + 1)

\* "while nb_moves > 0": after is the state at the end of one pass
RECURSIVE Sweeps(_, _, _, _)
Again(g, m, after, rand_nodes) ==
    IF after.nb_moves > 0 THEN Sweeps(g, m, after, rand_nodes) ELSE after

Sweeps(g, m, st, rand_nodes) ==
    Again(g, m, Sweep(g, m, [st EXCEPT !.nb_moves = 0], rand_nodes, 1), rand_nodes)

\* [{u} for u in G.nodes()]
RECURSIVE Singletons(_)
Singletons(k) == IF k = 0 THEN <<>> ELSE Append(Singletons(k - 1), {k - 1})

\* list(filter(len, partition))
NonEmpty(s) == SelectSeq(s, LAMBDA c : c # {})

\* the return of _one_level
LevelResult(st) ==
    [partition |-> NonEmpty(st.partition),
     inner_partition |-> NonEmpty(st.inner),
     improvement |-> st.improvement]

\* _one_level(G, m, partition, seed) for the order rand_nodes the shuffle produced
OneLevel(g, m, partition, rand_nodes) ==
    LevelResult(Sweeps(g, m,
        [node2com |-> [u \in 0..(g.k - 1) |-> u],
         partition |-> partition,
         inner |-> Singletons(g.k),
         Stot |-> [u \in 0..(g.k - 1) |-> Degree(g, u)],
         improvement |-> FALSE,
         nb_moves |-> 1],
        rand_nodes))

\* _gen_graph(G, partition)
RECURSIVE AddComEdges(_, _, _, _, _)
AddComEdges(h, g, es, node2com, t) ==
    IF t > Len(es) THEN h
    ELSE AddComEdges(
            AddWeightedEdge(h, node2com[es[t][1]], node2com[es[t][2]],
                g.w[es[t]] + h.w[<<node2com[es[t][1]], node2com[es[t][2]]>>]),
            g, es, node2com, t + 1)

GenGraph(g, partition) ==
    AddComEdges(
        EmptyWeighted(Len(partition),
            [c \in 0..(Len(partition) - 1) |->
                UNION {g.members[u] : u \in partition[c + 1]}]),
        g, EdgeList(g.adj, 0, g.k),
        [u \in 0..(g.k - 1) |-> (CHOOSE t \in 1..Len(partition) : u \in partition[t]) - 1],
        1)

\* seed.shuffle(rand_nodes): every order of the nodes 0..k-1
Shuffles(k) ==
    {s \in [1..k -> 0..(k - 1)] : \A a, b \in 1..k : a # b => s[a] # s[b]}

\* louvain_partitions from the first _one_level on: the partitions the
\* generator can yield last.  first: the call before the while loop, after
\* which improvement is forced to True.  new_mod - mod <= threshold is the
\* comparison of the numerators (both over 4*m^2, and 4*m^2 * 1e-7 < 1)
RECURSIVE Levels(_, _, _, _, _, _)
AfterYield(g, m, mod, r, new_mod) ==
    IF new_mod - mod <= 0 THEN {r.partition}
    ELSE Levels(GenGraph(g, r.inner_partition), m, r.partition,
                new_mod, r.partition, FALSE)

AfterLevel(g, m, mod, last, first, r) ==
    IF ~first /\ ~r.improvement THEN {last}
    ELSE AfterYield(g, m, mod, r, ModularityNum(g, r.inner_partition))

Levels(g, m, partition, mod, last, first) ==
    UNION {AfterLevel(g, m, mod, last, first, OneLevel(g, m, partition, rand_nodes))
           : rand_nodes \in Shuffles(g.k)}

\* nx.community.louvain_communities(G, weight='weight') with seed=None:
\* the set of lists of communities it can return
LouvainFrom(graph, partition) ==
    Levels(graph, Size(graph), partition,
           ModularityNum(graph, partition), partition, TRUE)

LouvainCommunities(g) ==
    LouvainFrom(WeightedCopy(g), Singletons(Cardinality(g.nodes)))

\* nx.community.modularity(G, communities), numerator and denominator
ModularityOf(graph, comms) ==
    [num |-> ModularityNum(graph, comms), den |-> 4 * Size(graph) * Size(graph)]

Modularity(g, comms) == ModularityOf(WeightedCopy(g), comms)

\* every graph make_components can build on a tabulated number of nodes: the
\* pairs are offered in scan order, so the adjacency lists are in insertion order
PairsOf(k) == {p \in (0..(k-1)) \X (0..(k-1)) : p[1] < p[2]}

RECURSIVE GraphOf(_, _, _, _)
GraphOf(g, E, a, b) ==
    LET k == Cardinality(g.nodes)
    IN IF a >= k - 1 THEN g
       ELSE LET g2 == IF <<a, b>> \in E THEN AddEdge(g, a, b) ELSE g
            IN IF b + 1 < k THEN GraphOf(g2, E, a, b + 1)
               ELSE GraphOf(g2, E, a + 1, a + 2)

ScanGraphs ==
    UNION {{GraphOf(EmptyGraph(k), E, 0, 1) : E \in SUBSET PairsOf(k)} : k \in TabledSizes}

\* LouvainCommunities tabulated once per graph (the combination with the
\* empty function makes TLC evaluate the table a single time)
LouvainTable ==
    [g \in {h \in ScanGraphs : ~NoEdges(h)}
        |-> LouvainCommunities(g)] @@ <<>>

LouvainOf(g) ==
    IF g \in DOMAIN LouvainTable THEN LouvainTable[g] ELSE LouvainCommunities(g)

\* ------------------------------------------------------- get_partition
GetPartition ==
    /\ pc = "partition"
    /\ IF NoEdges(G)
       THEN /\ P' = <<>>
            /\ modularity' = [num |-> 0, den |-> 1]
            /\ UNCHANGED invoked
       ELSE /\ \E communities \in LouvainOf(G) :
                  /\ P' = communities
                  /\ modularity' = Modularity(G, communities)
            /\ invoked' = TRUE
    /\ pc' = "select"
    /\ UNCHANGED <<x, y, xgap, ygap, epsilon, i, j, G,
                   low_parts, max_i, slim_part_vals, slim_part_indx, run, prev>>

\* ------------------------------------------------------------ __main__
\* list(p) for a set p of small non-negative integers: ascending
RECURSIVE SortedList(_)
SortedList(S) ==
    IF S = {} THEN <<>>
    ELSE LET lo == CHOOSE e \in S : \A f \in S : e <= f
         IN <<lo>> \o SortedList(S \ {lo})

\* partition_info: per community the timestamps and values of its members
PartitionInfo(part) ==
    [c \in 1..Len(part) |->
        LET p == SortedList(part[c])
        IN [times |-> [t \in 1..Len(p) |-> x[p[t]]],
            values |-> [t \in 1..Len(p) |-> y[p[t]]]]]

\* mean(vals) < LowThreshold, on integers
MeanBelow(vals) == SumSeq(vals, 1) < LowThreshold * Len(vals)

\* low_parts: the indices (from 0) of the communities of low mean
RECURSIVE LowParts(_, _)
LowParts(info, c) ==
    IF c > Len(info) THEN <<>>
    ELSE (IF MeanBelow(info[c].values) THEN <<c - 1>> ELSE <<>>) \o LowParts(info, c + 1)

\* variant: n >= max_len
RECURSIVE MaxPart_ge(_, _, _, _, _)
MaxPart_ge(info, low, t, max_len, best) ==
    IF t > Len(low) THEN best
    ELSE IF Len(info[low[t] + 1].values) >= max_len
         THEN MaxPart_ge(info, low, t + 1, Len(info[low[t] + 1].values), low[t])
         ELSE MaxPart_ge(info, low, t + 1, max_len, best)

\* the loop of lines 75-81
RECURSIVE MaxPart(_, _, _, _, _)
MaxPart(info, low, t, max_len, best) ==
    IF t > Len(low) THEN best
    ELSE LET len == Len(info[low[t] + 1].values)
         IN IF len > max_len THEN MaxPart(info, low, t + 1, len, low[t])
            ELSE MaxPart(info, low, t + 1, max_len, best)

Select ==
    /\ pc = "select"
    /\ low_parts' = LowParts(PartitionInfo(P), 1)
    /\ max_i' = MaxPart(PartitionInfo(P), low_parts', 1, 0, 0)
    /\ pc' = "filter"
    /\ UNCHANGED <<x, y, xgap, ygap, epsilon, i, j, G, P, modularity, invoked,
                   slim_part_vals, slim_part_indx, run, prev>>

\* sorted(vals)
RECURSIVE Insert(_, _)
Insert(s, v) ==
    IF s = <<>> THEN <<v>>
    ELSE IF v <= Head(s) THEN <<v>> \o s
    ELSE <<Head(s)>> \o Insert(Tail(s), v)

RECURSIVE Sorted(_)
Sorted(s) == IF s = <<>> THEN <<>> ELSE Insert(Sorted(Tail(s)), Head(s))

\* variant: the lower middle value also for an even count (median_low)
Median2_low(vals) == 2 * Sorted(vals)[(Len(vals) + 1) \div 2]

\* twice statistics.median(vals) of a non-empty list
Median2(vals) ==
    LET s == Sorted(vals)
        k == Len(s)
    IN IF k % 2 = 1 THEN 2 * s[(k + 1) \div 2]
       ELSE s[k \div 2] + s[k \div 2 + 1]

\* abs(v - m) < 0.08 * m, with m2 = 2 * m
Keep(v, m2) == Abs(2 * v - m2) * 100 < TolPercent * m2

\* the positions of the_part_vals kept by the loop of lines 94-97
KeptPositions(vals) ==
    LET m2 == Median2(vals)
    IN SelectSeq([t \in 1..Len(vals) |-> t], LAMBDA t : Keep(vals[t], m2))

\* lines 89-97; partition_info[max_i] raises IndexError on an empty list
Filter ==
    /\ pc = "filter"
    /\ IF Len(P) = 0
       THEN /\ pc' = "raised"
            /\ UNCHANGED <<slim_part_vals, slim_part_indx>>
       ELSE LET the_part_vals == PartitionInfo(P)[max_i + 1].values
                the_part_indx == PartitionInfo(P)[max_i + 1].times
                kept == KeptPositions(the_part_vals)
            IN /\ slim_part_vals' = [t \in 1..Len(kept) |-> the_part_vals[kept[t]]]
               /\ slim_part_indx' = [t \in 1..Len(kept) |-> the_part_indx[kept[t]]]
               /\ pc' = "done"
    /\ UNCHANGED <<x, y, xgap, ygap, epsilon, i, j, G, P, modularity, invoked,
                   low_parts, max_i, run, prev>>

\* the next iteration of the loop over the files reads the same samples again
Rerun ==
    /\ pc = "done"
    /\ run < MaxRuns
    /\ run' = run + 1
    /\ prev' = [set |-> TRUE, G |-> G, P |-> P, modularity |-> modularity,
                vals |-> slim_part_vals, indx |-> slim_part_indx]
    /\ i' = 0
    /\ j' = 1
    /\ G' = EmptyGraph(n)
    /\ pc' = "scan"
    /\ P' = <<>>
    /\ modularity' = [num |-> 0, den |-> 1]
    /\ invoked' = FALSE
    /\ low_parts' = <<>>
    /\ max_i' = 0
    /\ slim_part_vals' = <<>>
    /\ slim_part_indx' = <<>>
    /\ UNCHANGED <<x, y, xgap, ygap, epsilon>>

NoResult == [set |-> FALSE]

InitRest ==
    /\ i = 0
    /\ j = 1
    /\ G = EmptyGraph(n)
    /\ pc = "scan"
    /\ P = <<>>
    /\ modularity = [num |-> 0, den |-> 1]
    /\ invoked = FALSE
    /\ low_parts = <<>>
    /\ max_i = 0
    /\ slim_part_vals = <<>>
    /\ slim_part_indx = <<>>
    /\ run = 1
    /\ prev = NoResult

\* make_components called with arbitrary samples and parameters
InitComponents ==
    /\ \E k \in 0..MaxN :
          /\ x \in [0..(k-1) -> 0..MaxTime]
          /\ y \in [0..(k-1) -> CompValues]
    /\ xgap \in XGaps
    /\ ygap \in YGaps
    /\ epsilon \in Epsilons
    /\ InitRest

NextComponents == ScanPair \/ ScanReturn

SpecComponents == InitComponents /\ [][NextComponents]_vars

\* the pipeline as __main__ runs it: time-ordered samples, default parameters
Init ==
    /\ \E k \in 0..MaxN :
          /\ x \in {f \in [0..(k-1) -> 0..MaxTime] :
                        \A a, b \in 0..(k-1) : a < b => f[a] <= f[b]}
          /\ y \in [0..(k-1) -> Values]
    /\ xgap = DefaultXgap
    /\ ygap = DefaultYgap
    /\ epsilon = DefaultEpsilon
    /\ InitRest

Next == ScanPair \/ ScanReturn \/ GetPartition \/ Select \/ Filter \/ Rerun

Spec == Init /\ [][Next]_vars

\* ================================================================ claims
Partitioned == pc \in {"select", "filter", "done", "raised"}

Selected == pc \in {"filter", "done", "raised"}

IsSetPartition(part, S) ==
    /\ \A c \in DOMAIN part : part[c] # {}
    /\ \A c, d \in DOMAIN part : c # d => part[c] \cap part[d] = {}
    /\ UNION {part[c] : c \in DOMAIN part} = S

\* C1 as stated: for every graph, also one without edges, the communities
\* get_partition returns are non-empty, pairwise disjoint and cover 0..n-1
C1_EveryGraphPartitioned == Partitioned => IsSetPartition(P, 0..(n - 1))

\* C1 amended: for every graph with at least one edge, the communities
\* get_partition returns are non-empty, pairwise disjoint and cover 0..n-1
C1_Partition == (Partitioned /\ Edges(G) # {}) => IsSetPartition(P, 0..(n - 1))

C1_Witness == Partitioned /\ Edges(G) # {} /\ Len(P) >= 2 /\ n = MaxN

\* C2: the edge set make_components returns is the one of the reference scan:
\* pairs in the order i = 0..n-2, j = i+1..n-1, an edge {i,j} exactly when
\* |y[i]-y[j]| < ygap and (|x[j]-x[i]| < xgap or some v already joined to i
\* has x[j]-x[v] < epsilon*xgap)
RECURSIVE RefScan(_, _, _)
RefScan(E, a, b) ==
    IF a >= n - 1 THEN E
    ELSE LET add == /\ Abs(y[a] - y[b]) < ygap
                    /\ \/ Abs(x[b] - x[a]) < xgap
                       \/ \E v \in 0..(n - 1) :
                              {a, v} \in E /\ 10 * (x[b] - x[v]) < epsilon * xgap
             E2 == IF add THEN E \cup {{a, b}} ELSE E
         IN IF b + 1 < n THEN RefScan(E2, a, b + 1) ELSE RefScan(E2, a + 1, a + 2)

C2_ReferenceScan == pc = "partition" => Edges(G) = RefScan({}, 0, 1)

\* an edge that only the second-order rule can have added, on samples that
\* are not in time order
C2_Witness ==
    /\ pc = "partition"
    /\ \E a, b \in G.nodes : a < b /\ {a, b} \in Edges(G) /\ Abs(x[b] - x[a]) >= xgap
    /\ \E a, b \in G.nodes : a < b /\ x[b] < x[a]

\* C3: get_partition on a graph without edges returns ([], 0) and does not
\* call the partitioning algorithm; the step always ends in "select"
C3_ZeroEdges ==
    [][(pc = "partition" /\ Edges(G) = {}) =>
          (pc' = "select" /\ P' = <<>> /\ modularity'.num = 0 /\ ~invoked')]_vars

C3_Witness == pc = "select" /\ Edges(G) = {} /\ n >= 2 /\ P = <<>> /\ ~invoked

\* C4 as stated: one sample gives the graph with node 0 and no edge, and the
\* partition is the single community {0} with modularity 0
C4_SingletonCommunity ==
    (n = 1 /\ Partitioned) =>
        (G.nodes = {0} /\ Edges(G) = {} /\ P = <<{0}>> /\ modularity.num = 0)

\* C4 amended: one sample gives the graph with node 0 and no edge, and
\* get_partition returns no community at all, with modularity 0
C4_OneSample ==
    (n = 1 /\ Partitioned) =>
        (G.nodes = {0} /\ Edges(G) = {} /\ P = <<>> /\ modularity.num = 0)

C4_Witness == n = 1 /\ pc = "select"

\* the indices (from 0) of the communities whose mean value is below the threshold
LowSet ==
    {c \in 0..(Len(P) - 1) : SumOver(P[c + 1], y) < LowThreshold * Cardinality(P[c + 1])}

\* C5: when some community has a mean below the threshold, the selected one
\* is below the threshold, no community below the threshold is larger, and
\* among those of its size it has the lowest index
C5_Selection ==
    (Selected /\ LowSet # {}) =>
        /\ max_i \in LowSet
        /\ \A c \in LowSet :
              /\ Cardinality(P[c + 1]) <= Cardinality(P[max_i + 1])
              /\ Cardinality(P[c + 1]) = Cardinality(P[max_i + 1]) => max_i <= c

\* two communities below the threshold tie, and a larger one is above it
C5_Witness ==
    /\ Selected
    /\ max_i \in LowSet
    /\ \E c \in LowSet : c # max_i /\ Cardinality(P[c + 1]) = Cardinality(P[max_i + 1])
    /\ \E c \in (0..(Len(P) - 1)) \ LowSet :
          Cardinality(P[c + 1]) > Cardinality(P[max_i + 1])

\* C6: when no community is below the threshold (also for an empty
\* partition) the stage does not raise and no community is selected and filtered
C6_NotFoundReported ==
    (pc \in {"done", "raised"} /\ LowSet = {}) =>
        (pc # "raised" /\ slim_part_vals = <<>> /\ slim_part_indx = <<>>)

\* the r-th smallest value among the members S
OrderStat(S, r) ==
    CHOOSE v \in {y[u] : u \in S} :
        /\ Cardinality({u \in S : y[u] < v}) < r
        /\ r <= Cardinality({u \in S : y[u] <= v})

\* twice the median of the values of the members S
MedianTwice(S) ==
    IF Cardinality(S) % 2 = 1
    THEN 2 * OrderStat(S, (Cardinality(S) + 1) \div 2)
    ELSE OrderStat(S, Cardinality(S) \div 2) + OrderStat(S, Cardinality(S) \div 2 + 1)

InBand(u, S) == 100 * Abs(2 * y[u] - MedianTwice(S)) < TolPercent * MedianTwice(S)

KeptMembers(S) == SelectSeq(SortedList(S), LAMBDA u : InBand(u, S))

\* C7: the segment is the members of the selected community within 8% of
\* its median, in the community's order, each value with its own timestamp
C7_Segment ==
    pc = "done" =>
        /\ slim_part_vals =
              [t \in 1..Len(KeptMembers(P[max_i + 1])) |-> y[KeptMembers(P[max_i + 1])[t]]]
        /\ slim_part_indx =
              [t \in 1..Len(KeptMembers(P[max_i + 1])) |-> x[KeptMembers(P[max_i + 1])[t]]]

\* the filter keeps some members of a selected low community and drops others
C7_Witness ==
    /\ pc = "done"
    /\ max_i \in LowSet
    /\ Len(slim_part_vals) > 0
    /\ Len(slim_part_vals) < Cardinality(P[max_i + 1])
    /\ \E a, b \in 1..Len(slim_part_indx) : slim_part_indx[a] # slim_part_indx[b]

\* C8: a second run on the same samples gives the same graph, the same
\* communities, the same modularity and the same segment
C8_Deterministic ==
    (pc = "done" /\ prev.set) =>
        /\ prev.G = G
        /\ Range(prev.P) = Range(P)
        /\ prev.modularity = modularity
        /\ prev.vals = slim_part_vals
        /\ prev.indx = slim_part_indx

AllClose ==
    \A a, b \in DOMAIN x : Abs(y[a] - y[b]) < ygap /\ Abs(x[a] - x[b]) < xgap

SortedTimes == \A a, b \in DOMAIN x : a < b => x[a] <= x[b]

ChainPre == SortedTimes /\ xgap >= 0 /\ epsilon >= 0 /\ epsilon <= 10

\* a and b are joined by an edge of G
Joined(a, b) == Contains(G.adj[a], b)

\* every edge {a,b}, a < b, joins values within ygap, and if it spans xgap or
\* more it has an intermediate v, a < v < b, joined to a and close to b
ChainInv ==
    \A a, b \in G.nodes :
        (a < b /\ Joined(a, b)) =>
            /\ Joined(b, a)
            /\ Abs(y[a] - y[b]) < ygap
            /\ x[b] - x[a] >= xgap =>
                  \E v \in G.nodes :
                      /\ a < v /\ v < b /\ Joined(a, v)
                      /\ 10 * (x[b] - x[v]) < epsilon * xgap

\* a neighbour of a with a lower index never satisfies the second-order test
\* for a pair (a, b) the first-order test rejects
LowerNeverWitness ==
    \A a, b, v \in G.nodes :
        (v < a /\ a < b /\ Joined(a, v) /\ x[b] - x[a] >= xgap) =>
            ~(10 * (x[b] - x[v]) < epsilon * xgap)

\* C10: for time-ordered samples, xgap >= 0 and 0 <= epsilon <= 1, at every
\* point of the scan the edges satisfy the chain invariant, a lower-indexed
\* neighbour is never the witness of the second-order rule, and an edge once
\* added stays
C10_Chain ==
    /\ [](ChainPre => (ChainInv /\ LowerNeverWitness))
    /\ [][\A a, b \in G.nodes : Joined(a, b) => Joined(a, b)']_vars

\* a second-order edge out of a node that also has a lower-indexed neighbour
C10_Witness ==
    /\ ChainPre
    /\ pc = "partition"
    /\ \E a, b, v \in G.nodes :
          /\ v < a /\ a < b
          /\ Joined(a, v) /\ Joined(a, b)
          /\ x[b] - x[a] >= xgap

====
